---- MODULE Spec2Model ----
(***************************************************************************)
(* Model of the connect4-rs rules engine (src/src/main.rs): the board      *)
(* coordinate system, the two win detectors, the command validators, the   *)
(* event projections and the command_processing -> event_processing cycle. *)
(*                                                                         *)
(* Conventions.                                                            *)
(*  - A Board is a function 0..SLOT_COUNT-1 -> Slot, Slot being Empty or   *)
(*    Occupied(token).  A read outside 0..SLOT_COUNT-1 is Rust's bounds    *)
(*    check failing: the function panics, which the model propagates as    *)
(*    the value Panic (three-valued booleans) or Panicked (Option/Result). *)
(*  - Option<T> is None or Some(v).                                        *)
(*  - The `created` timestamp of the events (Utc::now()) is never read by  *)
(*    any validator or projection and is left out of the event records.    *)
(*  - usize arithmetic never overflows for the inputs drawn here.          *)
(***************************************************************************)
EXTENDS Integers, Naturals, Sequences, FiniteSets, TLC

HORIZONTAL_SLOT_COUNT == 7
VERTICAL_SLOT_COUNT == 6
SLOT_COUNT == HORIZONTAL_SLOT_COUNT * VERTICAL_SLOT_COUNT

(***************************************************************************)
(* Bounds of the exploration.                                              *)
(***************************************************************************)
\* GameCreated events are applied only while fewer than MaxGames games exist.
MaxGames == 2
\* TokenPlaced events are applied only while fewer than MaxPlaced tokens lie on all boards.
MaxPlaced == 6
\* Under SpecLog events are applied only while the log is shorter than MaxLog.
MaxLog == 5
\* SpecPos draws coordinates from 0..MaxCoord and indexes from 0..MaxIndex.
MaxCoord == 7
MaxIndex == 48
\* events applied under SpecRace
MaxRaceLog == 4
\* tokens placed under SpecDeep
MaxDeepPlaced == 8

VARIABLES games, cmd, emitted, panicked, log, probe

vars == <<games, cmd, emitted, panicked, log, probe>>

(***************************************************************************)
(* Values                                                                  *)
(***************************************************************************)
Red == "Red"
Yellow == "Yellow"
Token == {Red, Yellow}

Empty == "Empty"
Occupied(token) == token
Slot == {Empty} \cup {Occupied(t) : t \in Token}

None == [kind |-> "None"]
Some(v) == [kind |-> "Some", value |-> v]
Panicked == [kind |-> "Panic"]

\* three-valued outcome of a bool-returning function that may panic
T == "true"
F == "false"
Panic == "panic"

(***************************************************************************)
(* Position                                                                *)
(***************************************************************************)
Position(x, y) == [x |-> x, y |-> y]

translate(pos) == pos.x + HORIZONTAL_SLOT_COUNT * pos.y

RECURSIVE from_index_loop(_, _)
from_index_loop(x, y) ==
    IF x < HORIZONTAL_SLOT_COUNT
    THEN Position(x, y)
    ELSE from_index_loop(x - HORIZONTAL_SLOT_COUNT, y + 1)

\* from_index with the loop's exit test off by one (x <= HORIZONTAL_SLOT_COUNT)
RECURSIVE from_index_loop_off_by_one(_, _)
from_index_loop_off_by_one(x, y) ==
    IF x <= HORIZONTAL_SLOT_COUNT
    THEN Position(x, y)
    ELSE from_index_loop_off_by_one(x - HORIZONTAL_SLOT_COUNT, y + 1)

from_index_off_by_one(idx) == from_index_loop_off_by_one(idx, 0)

from_index(idx) == from_index_loop(idx, 0)

add_x(pos, i) == [pos EXCEPT !.x = pos.x + i]
sub_x(pos, i) == [pos EXCEPT !.x = pos.x - i]
add_y(pos, i) == [pos EXCEPT !.y = pos.y + i]

(***************************************************************************)
(* Board                                                                   *)
(***************************************************************************)
empty_board == [i \in 0..(SLOT_COUNT - 1) |-> Empty]

\* the nested loops of board_positions, flattened: iteration n visits
\* x = n \div VERTICAL_SLOT_COUNT (outer), y = n % VERTICAL_SLOT_COUNT (inner)
RECURSIVE board_positions_fill(_, _)
board_positions_fill(positions, n) ==
    IF n = HORIZONTAL_SLOT_COUNT * VERTICAL_SLOT_COUNT
    THEN positions
    ELSE LET pos == Position(n \div VERTICAL_SLOT_COUNT, n % VERTICAL_SLOT_COUNT)
         IN  board_positions_fill([positions EXCEPT ![translate(pos)] = pos], n + 1)

\* board_positions with the inner loop stopping one row early
\* (0..VERTICAL_SLOT_COUNT - 1): the top row keeps init_pos
board_positions_skips_top_row ==
    LET full == board_positions_fill([i \in 0..(SLOT_COUNT - 1) |-> Position(0, 0)], 0)
    IN  [i \in DOMAIN full |->
            IF full[i].y = VERTICAL_SLOT_COUNT - 1 THEN Position(0, 0) ELSE full[i]]

\* board_positions storing each position at the loop counter instead of at
\* pos.translate()
board_positions_in_loop_order ==
    [n \in 0..(SLOT_COUNT - 1) |->
        Position(n \div VERTICAL_SLOT_COUNT, n % VERTICAL_SLOT_COUNT)]

board_positions ==
    board_positions_fill([i \in 0..(SLOT_COUNT - 1) |-> Position(0, 0)], 0)

column_positions(x) == [y \in 0..(VERTICAL_SLOT_COUNT - 1) |-> Position(x, y)]

\* slot == board[i1] && slot == board[i2] && slot == board[i3], left to right,
\* short-circuiting, each read bounds-checked
line_of_three(board, slot, i1, i2, i3) ==
    IF i1 >= SLOT_COUNT THEN Panic
    ELSE IF board[i1] # slot THEN F
    ELSE IF i2 >= SLOT_COUNT THEN Panic
    ELSE IF board[i2] # slot THEN F
    ELSE IF i3 >= SLOT_COUNT THEN Panic
    ELSE IF board[i3] # slot THEN F
    ELSE T

(***************************************************************************)
(* Win detector: check_game_over                                           *)
(***************************************************************************)
\* the body of the Slot::Occupied(token) arm for one anchor: the four `let`s
\* are evaluated in order, all of them, before the `if` reads them; T when
\* the `if` condition holds, Panic when one of the reads is out of bounds
check_game_over_anchor(board, pos, slot) ==
    LET on_right_line ==
            IF pos.x + 3 < HORIZONTAL_SLOT_COUNT
            THEN line_of_three(board, slot,
                               translate(add_x(pos, 1)),
                               translate(add_x(pos, 2)),
                               translate(add_x(pos, 3)))
            ELSE F
        on_top_line ==
            line_of_three(board, slot,
                          translate(add_y(pos, 1)),
                          translate(add_y(pos, 2)),
                          translate(add_y(pos, 3)))
        on_up_right_line ==
            IF pos.x + 3 < HORIZONTAL_SLOT_COUNT
            THEN line_of_three(board, slot,
                               translate(add_y(add_x(pos, 1), 1)),
                               translate(add_y(add_x(pos, 2), 2)),
                               translate(add_y(add_x(pos, 3), 3)))
            ELSE F
        on_up_left_line ==
            IF pos.x >= 3
            THEN line_of_three(board, slot,
                               translate(add_y(sub_x(pos, 1), 1)),
                               translate(add_y(sub_x(pos, 2), 2)),
                               translate(add_y(sub_x(pos, 3), 3)))
            ELSE F
    IN  IF Panic \in {on_right_line, on_top_line, on_up_right_line, on_up_left_line}
        THEN Panic
        ELSE IF \/ on_right_line = T
                \/ /\ pos.y + 3 < VERTICAL_SLOT_COUNT
                   /\ (on_top_line = T \/ on_up_right_line = T \/ on_up_left_line = T)
             THEN T
             ELSE F

\* the `for pos in board_positions().iter()` loop, from its k-th iteration
RECURSIVE check_game_over_from(_, _, _, _)
check_game_over_from(board, player1, player2, k) ==
    IF k = SLOT_COUNT
    THEN None
    ELSE LET pos == board_positions[k]
             slot == board[translate(pos)]
         IN  IF slot = Empty
             THEN check_game_over_from(board, player1, player2, k + 1)
             ELSE LET found == check_game_over_anchor(board, pos, slot)
                  IN  IF found = Panic THEN Panicked
                      ELSE IF found = T
                           THEN IF player1.token = slot
                                THEN Some(player1)
                                ELSE Some(player2)
                           ELSE check_game_over_from(board, player1, player2, k + 1)

check_game_over(board, player1, player2) ==
    check_game_over_from(board, player1, player2, 0)

(***************************************************************************)
(* Win detector: Game::game_over                                           *)
(***************************************************************************)
game_over_anchor(self, pos, slot) ==
    LET on_right_line ==
            IF pos.x + 3 < HORIZONTAL_SLOT_COUNT
            THEN line_of_three(self.board, slot,
                               translate(add_x(pos, 1)),
                               translate(add_x(pos, 2)),
                               translate(add_x(pos, 3)))
            ELSE F
        on_top_line ==
            line_of_three(self.board, slot,
                          translate(add_y(pos, 1)),
                          translate(add_y(pos, 2)),
                          translate(add_y(pos, 3)))
        on_up_right_line ==
            IF pos.x + 3 < HORIZONTAL_SLOT_COUNT
            THEN line_of_three(self.board, slot,
                               translate(add_y(add_x(pos, 1), 1)),
                               translate(add_y(add_x(pos, 2), 2)),
                               translate(add_y(add_x(pos, 3), 3)))
            ELSE F
        on_up_left_line ==
            IF pos.x >= 3
            THEN line_of_three(self.board, slot,
                               translate(add_y(sub_x(pos, 1), 1)),
                               translate(add_y(sub_x(pos, 2), 2)),
                               translate(add_y(sub_x(pos, 3), 3)))
            ELSE F
    IN  IF Panic \in {on_right_line, on_top_line, on_up_right_line, on_up_left_line}
        THEN Panic
        ELSE IF \/ on_right_line = T
                \/ /\ pos.y + 3 < VERTICAL_SLOT_COUNT
                   /\ (on_top_line = T \/ on_up_right_line = T \/ on_up_left_line = T)
             THEN T
             ELSE F

RECURSIVE game_over_from(_, _)
game_over_from(self, k) ==
    IF k = SLOT_COUNT
    THEN None
    ELSE LET pos == board_positions[k]
             slot == self.board[translate(pos)]
         IN  IF slot = Empty
             THEN game_over_from(self, k + 1)
             ELSE LET found == game_over_anchor(self, pos, slot)
                  IN  IF found = Panic THEN Panicked
                      ELSE IF found = T
                           THEN IF self.player1.token = slot
                                THEN Some(self.player1)
                                ELSE Some(self.player2)
                           ELSE game_over_from(self, k + 1)

\* game_over with the scan starting at the second position
game_over_skips_first_position(self) == game_over_from(self, 1)

game_over(self) == game_over_from(self, 0)

(***************************************************************************)
(* Validators                                                              *)
(***************************************************************************)
\* the loop of is_valid_move over column_positions(action.column), from row y
RECURSIVE is_valid_move_from(_, _, _)
is_valid_move_from(board, action, y) ==
    IF y = VERTICAL_SLOT_COUNT
    THEN F
    ELSE LET idx == translate(column_positions(action.column)[y])
         IN  IF idx >= SLOT_COUNT THEN Panic
             ELSE IF board[idx] = Empty THEN T
             ELSE is_valid_move_from(board, action, y + 1)

\* is_valid_move answering from the first slot of the column alone (the
\* loop returning false on an occupied slot instead of moving on)
is_valid_move_first_slot_only(board, action) ==
    LET idx == translate(column_positions(action.column)[0])
    IN  IF idx >= SLOT_COUNT THEN Panic
        ELSE IF board[idx] = Empty THEN T
        ELSE F

\* is_valid_move without the Slot::Empty test: a column is accepted as soon
\* as its first slot can be read
is_valid_move_ignores_occupancy(board, action) ==
    LET idx == translate(column_positions(action.column)[0])
    IN  IF idx >= SLOT_COUNT THEN Panic ELSE T

is_valid_move(board, action) == is_valid_move_from(board, action, 0)

\* games.values() visits the games in the HashMap's iteration order, which
\* the program does not control: `order` is that order, a sequence of keys
RECURSIVE can_create_game_from(_, _, _, _)
can_create_game_from(gs, order, command, k) ==
    IF k > Len(order)
    THEN T
    ELSE LET game == gs[order[k]]
             over == game_over(game)
         IN  IF over = Panicked THEN Panic
             ELSE IF /\ over = None
                     /\ \/ game.player1.name = command.player1.name
                        \/ game.player1.name = command.player2.name
                        \/ game.player2.name = command.player1.name
                        \/ game.player2.name = command.player2.name
                  THEN F
                  ELSE can_create_game_from(gs, order, command, k + 1)

\* can_create_game comparing only the command's second player with the seats
RECURSIVE can_create_game_player2_only_from(_, _, _, _)
can_create_game_player2_only_from(gs, order, command, k) ==
    IF k > Len(order)
    THEN T
    ELSE LET game == gs[order[k]]
             over == game_over(game)
         IN  IF over = Panicked THEN Panic
             ELSE IF /\ over = None
                     /\ \/ game.player1.name = command.player2.name
                        \/ game.player2.name = command.player2.name
                  THEN F
                  ELSE can_create_game_player2_only_from(gs, order, command, k + 1)

can_create_game_player2_only(gs, order, command) ==
    can_create_game_player2_only_from(gs, order, command, 1)

can_create_game(gs, order, command) == can_create_game_from(gs, order, command, 1)

(***************************************************************************)
(* Projections                                                             *)
(***************************************************************************)
\* Some(board') on return, Panicked when a read is out of bounds
RECURSIVE project_board_from(_, _, _)
project_board_from(board, event, y) ==
    IF y = VERTICAL_SLOT_COUNT
    THEN Some(board)
    ELSE LET idx == translate(column_positions(event.column)[y])
         IN  IF idx >= SLOT_COUNT THEN Panicked
             ELSE IF board[idx] = Empty
                  THEN Some([board EXCEPT ![idx] = Occupied(event.token)])
                  ELSE project_board_from(board, event, y + 1)

\* project_board without the `if let Slot::Empty` test: the token is written
\* into the first slot of the column
project_board_overwrites_first_slot(board, event) ==
    LET idx == translate(column_positions(event.column)[0])
    IN  IF idx >= SLOT_COUNT THEN Panicked
        ELSE Some([board EXCEPT ![idx] = Occupied(event.token)])

project_board(board, event) == project_board_from(board, event, 0)

\* HashMap::insert: adds the key or replaces its value
Insert(gs, id, game) ==
    [k \in (DOMAIN gs) \cup {id} |-> IF k = id THEN game ELSE gs[k]]

Game(id, player1, player2, board) ==
    [id |-> id, player1 |-> player1, player2 |-> player2, board |-> board]

\* project_all_games creating a game under the next free key instead of event.id
project_all_games_counts_ids(gs, event) ==
    IF event.type = "GameCreated"
    THEN Some(Insert(gs, Cardinality(DOMAIN gs) + 1,
                     Game(event.id, event.player1, event.player2, empty_board)))
    ELSE IF event.game \in DOMAIN gs
         THEN LET b == project_board(gs[event.game].board, event)
              IN  IF b = Panicked THEN Panicked
                  ELSE Some([gs EXCEPT ![event.game].board = b.value])
         ELSE Some(gs)

\* Some(games') on return, Panicked when project_board panics
project_all_games(gs, event) ==
    IF event.type = "GameCreated"
    THEN Some(Insert(gs, event.id,
                     Game(event.id, event.player1, event.player2, empty_board)))
    ELSE IF event.game \in DOMAIN gs
         THEN LET b == project_board(gs[event.game].board, event)
              IN  IF b = Panicked THEN Panicked
                  ELSE Some([gs EXCEPT ![event.game].board = b.value])
         ELSE Some(gs)

project_next_color_to_play(current, event) ==
    IF current = Red THEN Yellow ELSE Red

project_game_count(current, event) == current + 1

(***************************************************************************)
(* Command processor                                                       *)
(***************************************************************************)
GameCreated(id, player1, player2) ==
    [type |-> "GameCreated", id |-> id, player1 |-> player1, player2 |-> player2]

TokenPlaced(game, token, column) ==
    [type |-> "TokenPlaced", game |-> game, token |-> token, column |-> column]

\* command_processing numbering every game 0 instead of games.len()
command_processing_id_zero(gs, order, c) ==
    IF c.type = "CreateGame"
    THEN LET ok == can_create_game(gs, order, c)
         IN  IF ok = Panic THEN Panicked
             ELSE IF ok = T
                  THEN Some(GameCreated(0, c.player1, c.player2))
                  ELSE None
    ELSE IF c.game \in DOMAIN gs
         THEN LET ok == is_valid_move(gs[c.game].board, c)
              IN  IF ok = Panic THEN Panicked
                  ELSE IF ok = T
                       THEN Some(TokenPlaced(c.game, c.player.token, c.column))
                       ELSE None
         ELSE None

\* None, Some(event), or Panicked; `order` is the iteration order can_create_game sees
command_processing(gs, order, c) ==
    IF c.type = "CreateGame"
    THEN LET ok == can_create_game(gs, order, c)
         IN  IF ok = Panic THEN Panicked
             ELSE IF ok = T
                  THEN Some(GameCreated(Cardinality(DOMAIN gs), c.player1, c.player2))
                  ELSE None
    ELSE IF c.game \in DOMAIN gs
         THEN LET ok == is_valid_move(gs[c.game].board, c)
              IN  IF ok = Panic THEN Panicked
                  ELSE IF ok = T
                       THEN Some(TokenPlaced(c.game, c.player.token, c.column))
                       ELSE None
         ELSE None

\* event_processing inserting with entry(id).or_insert(game): an existing
\* game is kept
event_processing_keeps_existing(gs, event) ==
    IF event.type = "GameCreated"
    THEN IF event.id \in DOMAIN gs
         THEN Some(gs)
         ELSE Some(Insert(gs, event.id,
                          Game(event.id, event.player1, event.player2, empty_board)))
    ELSE IF event.game \in DOMAIN gs
         THEN LET b == project_board(gs[event.game].board, event)
              IN  IF b = Panicked THEN Panicked
                  ELSE Some([gs EXCEPT ![event.game].board = b.value])
         ELSE Some(gs)

event_processing(gs, event) ==
    IF event.type = "GameCreated"
    THEN Some(Insert(gs, event.id,
                     Game(event.id, event.player1, event.player2, empty_board)))
    ELSE IF event.game \in DOMAIN gs
         THEN LET b == project_board(gs[event.game].board, event)
              IN  IF b = Panicked THEN Panicked
                  ELSE Some([gs EXCEPT ![event.game].board = b.value])
         ELSE Some(gs)

(***************************************************************************)
(* Inputs                                                                  *)
(***************************************************************************)
Player(name, token) == [name |-> name, token |-> token]

\* the players commands are drawn from; "a" and "c" hold the same token
PlayerA == Player("a", Red)
PlayerB == Player("b", Yellow)
PlayerC == Player("c", Red)
PlayerD == Player("d", Yellow)

\* the column values PlaceToken commands are drawn from: two columns of the
\* board and the first value past the last column
CmdColumns == {0, 1, HORIZONTAL_SLOT_COUNT}

CreateGame(player1, player2) ==
    [type |-> "CreateGame", player1 |-> player1, player2 |-> player2]

PlaceToken(game, player, column) ==
    [type |-> "PlaceToken", game |-> game, player |-> player, column |-> column]

\* a Red/Yellow pairing and a pairing of two Red players
CreateGameCommands ==
    {CreateGame(PlayerA, PlayerB), CreateGame(PlayerA, PlayerC)}

PlaceTokenCommands ==
    {PlaceToken(g, p, c) : g \in 0..(MaxGames - 1), p \in {PlayerA, PlayerB}, c \in CmdColumns}

\* the commands of SpecLog: two pairings that share no name, so that two
\* games are open at once, and placements into column 0 and past the last column
LogCreateGameCommands ==
    {CreateGame(PlayerA, PlayerB), CreateGame(PlayerC, PlayerD)}

LogPlaceTokenCommands ==
    {PlaceToken(g, p, c) : g \in 0..(MaxGames - 1), p \in {PlayerA, PlayerB},
                           c \in {0, HORIZONTAL_SLOT_COUNT}}

NoCommand == [type |-> "NoCommand"]

\* the iteration orders a HashMap with the keys of gs can produce
Orders(gs) ==
    {o \in [1..Cardinality(DOMAIN gs) -> DOMAIN gs] :
        \A i, j \in DOMAIN o : o[i] = o[j] => i = j}

Occupancy(board) == Cardinality({i \in DOMAIN board : board[i] # Empty})

RECURSIVE TotalPlaced(_)
TotalPlaced(gs) ==
    IF DOMAIN gs = {}
    THEN 0
    ELSE LET g == CHOOSE k \in DOMAIN gs : TRUE
         IN  Occupancy(gs[g].board) + TotalPlaced([k \in (DOMAIN gs) \ {g} |-> gs[k]])

NoProbe == [stage |-> "none"]

(***************************************************************************)
(* The serialized validate-then-apply cycle                                *)
(***************************************************************************)
Init ==
    /\ games = <<>>
    /\ cmd = NoCommand
    /\ emitted = None
    /\ panicked = FALSE
    /\ log = <<>>
    /\ probe = NoProbe

\* command_processing(&games, c): the outcome is kept in `emitted` until the
\* event is applied; a panic ends the process
CommandProcessing(c, order) ==
    /\ ~panicked
    /\ emitted = None
    /\ cmd = NoCommand
    /\ LET r == command_processing(games, order, c)
       IN  /\ panicked' = (r = Panicked)
           /\ emitted' = IF r = Panicked THEN None ELSE r
    /\ cmd' = c
    /\ UNCHANGED <<games, log, probe>>

\* the caller sees no event and waits for the next command
\* (`if let Some(event) = command_processing(..)` not taken)
CommandRejected ==
    /\ ~panicked
    /\ emitted = None
    /\ cmd # NoCommand
    /\ cmd' = NoCommand
    /\ UNCHANGED <<games, emitted, panicked, log, probe>>

CreateGameStep ==
    \E c \in CreateGameCommands : \E order \in Orders(games) : CommandProcessing(c, order)

\* the PlaceToken arm of command_processing does not iterate the games: no
\* iteration order is involved
PlaceTokenStep ==
    \E c \in PlaceTokenCommands : CommandProcessing(c, <<>>)

WithinBounds(event) ==
    IF event.type = "GameCreated"
    THEN Cardinality(DOMAIN games) < MaxGames
    ELSE TotalPlaced(games) < MaxPlaced

\* event_processing(&mut games, &event) on the event just emitted; under
\* SpecLog (persist) the event is also appended to the event log
ApplyEvent(persist) ==
    /\ ~panicked
    /\ emitted # None
    /\ WithinBounds(emitted.value)
    /\ persist => Len(log) < MaxLog
    /\ LET r == event_processing(games, emitted.value)
       IN  /\ panicked' = (r = Panicked)
           /\ games' = IF r = Panicked THEN games ELSE r.value
    /\ log' = IF persist THEN Append(log, emitted.value) ELSE log
    /\ emitted' = None
    /\ cmd' = NoCommand
    /\ UNCHANGED probe

EventProcessing == ApplyEvent(FALSE)

EventProcessingLogged == ApplyEvent(TRUE)

Next ==
    \/ CreateGameStep
    \/ PlaceTokenStep
    \/ CommandRejected
    \/ EventProcessing

Spec == Init /\ [][Next]_vars

LogCreateGameStep ==
    \E c \in LogCreateGameCommands : \E order \in Orders(games) : CommandProcessing(c, order)

LogPlaceTokenStep ==
    \E c \in LogPlaceTokenCommands : CommandProcessing(c, <<>>)

NextLog ==
    \/ LogCreateGameStep
    \/ LogPlaceTokenStep
    \/ CommandRejected
    \/ EventProcessingLogged

SpecLog == Init /\ [][NextLog]_vars

(***************************************************************************)
(* Replay of the event log from an empty Games collection                  *)
(***************************************************************************)
RECURSIVE replay_event_processing(_, _, _)
replay_event_processing(gs, events, k) ==
    IF k > Len(events)
    THEN Some(gs)
    ELSE LET r == event_processing(gs, events[k])
         IN  IF r = Panicked THEN Panicked
             ELSE replay_event_processing(r.value, events, k + 1)

RECURSIVE replay_project_all_games(_, _, _)
replay_project_all_games(gs, events, k) ==
    IF k > Len(events)
    THEN Some(gs)
    ELSE LET r == project_all_games(gs, events[k])
         IN  IF r = Panicked THEN Panicked
             ELSE replay_project_all_games(r.value, events, k + 1)

(***************************************************************************)
(* The coordinate functions applied to drawn inputs                        *)
(***************************************************************************)
\* probe.trail is the drawn input followed by the results of the functions
\* applied so far: a position, its index, the position of that index; or an
\* index, its position, the index of that position
InitPos ==
    /\ games = <<>>
    /\ cmd = NoCommand
    /\ emitted = None
    /\ panicked = FALSE
    /\ log = <<>>
    /\ probe \in {[origin |-> "pos", trail |-> <<Position(x, y)>>] :
                     x \in 0..MaxCoord, y \in 0..MaxCoord}
                 \cup {[origin |-> "idx", trail |-> <<i>>] : i \in 0..MaxIndex}

LastIsPosition == (probe.origin = "pos") = (Len(probe.trail) % 2 = 1)

Translate ==
    /\ Len(probe.trail) < 3
    /\ LastIsPosition
    /\ probe' = [probe EXCEPT !.trail = Append(@, translate(@[Len(@)]))]
    /\ UNCHANGED <<games, cmd, emitted, panicked, log>>

FromIndex ==
    /\ Len(probe.trail) < 3
    /\ ~LastIsPosition
    /\ probe' = [probe EXCEPT !.trail = Append(@, from_index(@[Len(@)]))]
    /\ UNCHANGED <<games, cmd, emitted, panicked, log>>

NextPos ==
    \/ Translate
    \/ FromIndex

SpecPos == InitPos /\ [][NextPos]_vars

(***************************************************************************)
(* Vocabulary of the properties                                            *)
(***************************************************************************)
Columns == 0..(HORIZONTAL_SLOT_COUNT - 1)
Rows == 0..(VERTICAL_SLOT_COUNT - 1)

SlotAt(board, x, y) == board[x + HORIZONTAL_SLOT_COUNT * y]

\* right, up, up-right, up-left
Directions == {<<1, 0>>, <<0, 1>>, <<1, 1>>, <<-1, 1>>}

\* four slots in a straight line, all on the board, all occupied by token
FourInLine(board, token) ==
    \E x \in Columns, y \in Rows, d \in Directions :
        \A k \in 0..3 :
            /\ x + k * d[1] \in Columns
            /\ y + k * d[2] \in Rows
            /\ SlotAt(board, x + k * d[1], y + k * d[2]) = Occupied(token)

HasLine(board) == \E token \in Token : FourInLine(board, token)

\* no Empty slot below an Occupied slot
Gravity(board) ==
    \A x \in Columns, y \in Rows :
        (y > 0 /\ SlotAt(board, x, y) # Empty) => SlotAt(board, x, y - 1) # Empty

ColumnOccupancy(board, x) == Cardinality({y \in Rows : SlotAt(board, x, y) # Empty})

TokenCount(board, token) ==
    Cardinality({i \in DOMAIN board : board[i] = Occupied(token)})

RedAndYellow(game) == {game.player1.token, game.player2.token} = Token

SeatsName(game, command) ==
    {game.player1.name, game.player2.name}
        \cap {command.player1.name, command.player2.name} # {}

AllGravity == \A g \in DOMAIN games : Gravity(games[g].board)

(***************************************************************************)
(* C1..C10                                                                 *)
(***************************************************************************)

\* C1: for every board reached by gravity-respecting placements, top row
\* included, and players holding Red and Yellow, check_game_over returns
\* Some(player) iff the board holds four equal occupied slots in a straight
\* line, and None otherwise.
C1_DetectsExactlyTheLines ==
    \A g \in DOMAIN games :
        (Gravity(games[g].board) /\ RedAndYellow(games[g])) =>
            LET r == check_game_over(games[g].board, games[g].player1, games[g].player2)
            IN  IF HasLine(games[g].board) THEN r.kind = "Some" ELSE r = None

\* C2: every board access of check_game_over and Game::game_over uses an
\* index in [0, 42): neither detector reads out of bounds, also when row 5
\* holds tokens.
C2_NoOutOfBoundsAccess ==
    \A g \in DOMAIN games :
        Gravity(games[g].board) =>
            /\ check_game_over(games[g].board, games[g].player1, games[g].player2) # Panicked
            /\ game_over(games[g]) # Panicked

\* C3: in every state reached by serialized cycles, PlaceToken columns of
\* any value included, no column has an Empty slot below an Occupied slot
\* and no column holds more than 6 tokens.
C3_GravityPreserved ==
    \A g \in DOMAIN games :
        /\ Gravity(games[g].board)
        /\ \A x \in Columns : ColumnOccupancy(games[g].board, x) <= VERTICAL_SLOT_COUNT

\* C4: for a PlaceToken command with column in [0, 7), command_processing
\* emits an event iff the game exists and the column holds fewer than 6
\* tokens, and the event is TokenPlaced with the command's game id, the
\* command player's token and the command's column.
C4_PlaceTokenEmission ==
    (cmd.type = "PlaceToken" /\ cmd.column \in Columns) =>
        /\ ~panicked
        /\ emitted # None <=>
              /\ cmd.game \in DOMAIN games
              /\ ColumnOccupancy(games[cmd.game].board, cmd.column) < VERTICAL_SLOT_COUNT
        /\ emitted # None =>
              emitted = Some([type |-> "TokenPlaced", game |-> cmd.game,
                              token |-> cmd.player.token, column |-> cmd.column])

\* C4 witness: a PlaceToken into a full column of an existing game was rejected.
C4_FullColumnRejected ==
    /\ cmd.type = "PlaceToken"
    /\ cmd.column \in Columns
    /\ cmd.game \in DOMAIN games
    /\ ColumnOccupancy(games[cmd.game].board, cmd.column) = VERTICAL_SLOT_COUNT
    /\ emitted = None
    /\ ~panicked

\* C5: command_processing emits no event for a PlaceToken whose target game
\* already has a winner.
C5_NoEventAfterGameOver ==
    ( /\ cmd.type = "PlaceToken"
      /\ cmd.column \in Columns
      /\ cmd.game \in DOMAIN games
      /\ AllGravity
      /\ HasLine(games[cmd.game].board) ) => emitted = None

\* C6: the accepted TokenPlaced events of a game alternate between Red and
\* Yellow, so on every reachable board the numbers of Red and of Yellow
\* tokens differ by at most 1.
C6_TurnAlternation ==
    \A g \in DOMAIN games :
        Gravity(games[g].board) =>
            /\ TokenCount(games[g].board, Red) - TokenCount(games[g].board, Yellow) <= 1
            /\ TokenCount(games[g].board, Yellow) - TokenCount(games[g].board, Red) <= 1

\* C7: for every reachable Games collection, a full column without winner
\* included, can_create_game returns false iff a proposed name is seated in
\* some game that is not yet over (CreateGame is rejected exactly then, and
\* accepted otherwise).
C7_CanCreateGameDecides ==
    (cmd.type = "CreateGame" /\ AllGravity) =>
        /\ ~panicked
        /\ emitted = None <=>
              \E g \in DOMAIN games :
                  ~HasLine(games[g].board) /\ SeatsName(games[g], cmd)

\* C8: folding the whole event log from an empty Games collection, with
\* event_processing and with project_all_games, yields the Games collection
\* obtained by applying each event when it was emitted.
C8_ReplayEquivalence ==
    /\ replay_event_processing(<<>>, log, 1) = Some(games)
    /\ replay_project_all_games(<<>>, log, 1) = Some(games)

\* C8 witness: a log that opened two games and placed tokens in both.
C8_TwoGamesReplayed ==
    /\ Cardinality(DOMAIN games) = 2
    /\ \A g \in DOMAIN games : Occupancy(games[g].board) > 0
    /\ Len(log) >= 4

\* C9: whenever check_game_over returns Some(p), for any pair of players a
\* GameCreated event can carry, p's token is the token of a line of four on
\* the board.
C9_WinnerHoldsTheLineToken ==
    \A g \in DOMAIN games :
        Gravity(games[g].board) =>
            LET r == check_game_over(games[g].board, games[g].player1, games[g].player2)
            IN  r.kind = "Some" => FourInLine(games[g].board, r.value.token)

\* C10: translate maps the 42 valid positions one-to-one onto [0, 42) as
\* column + 7 * row, from_index(translate(p)) = p for every valid p and
\* translate(from_index(i)) = i for every i in [0, 42).
ValidPosition(pos) == pos.x \in Columns /\ pos.y \in Rows

C10_TranslateFromIndexInverse ==
    LET t == probe.trail
    IN  /\ (probe.origin = "pos" /\ ValidPosition(t[1]) /\ Len(t) >= 2) =>
              /\ t[2] \in 0..(SLOT_COUNT - 1)
              /\ t[2] = t[1].x + 7 * t[1].y
        /\ (probe.origin = "pos" /\ ValidPosition(t[1]) /\ Len(t) = 3) => t[3] = t[1]
        /\ (probe.origin = "idx" /\ t[1] \in 0..(SLOT_COUNT - 1) /\ Len(t) >= 2) =>
              ValidPosition(t[2])
        /\ (probe.origin = "idx" /\ t[1] \in 0..(SLOT_COUNT - 1) /\ Len(t) = 3) => t[3] = t[1]

\* C10 witness: the top right corner went to its index and back.
C10_CornerRoundTrip ==
    /\ probe.origin = "pos"
    /\ Len(probe.trail) = 3
    /\ probe.trail[1] = Position(HORIZONTAL_SLOT_COUNT - 1, VERTICAL_SLOT_COUNT - 1)
    /\ probe.trail[2] = SLOT_COUNT - 1
    /\ probe.trail[3] = probe.trail[1]

(***************************************************************************)
(* The position arrays iterated, each position translated                  *)
(***************************************************************************)
(***************************************************************************)
(* Two commands validated against the same snapshot                        *)
(***************************************************************************)
\* Without serialization a second command is validated while the event of
\* the first is still to be applied.  probe.second is the event of that
\* second command, probe.stale says that the event in `emitted` was
\* validated against a Games collection that has changed since, and
\* probe.collisions counts the pairs of CreateGame commands accepted against
\* the same snapshot.
RaceIdle == [second |-> None, stale |-> FALSE, collisions |-> 0]

InitRace ==
    /\ games = <<>>
    /\ cmd = NoCommand
    /\ emitted = None
    /\ panicked = FALSE
    /\ log = <<>>
    /\ probe = RaceIdle

RaceCreateGameCommands ==
    {CreateGame(PlayerA, PlayerB), CreateGame(PlayerC, PlayerD)}

RacePlaceTokenCommands ==
    {PlaceToken(g, PlayerA, 0) : g \in 0..(MaxGames - 1)}

RaceCommands == RaceCreateGameCommands \cup RacePlaceTokenCommands

\* command_processing(&games, c) with nothing in flight
RaceValidateFirst ==
    /\ probe.second = None
    /\ \E c \in RaceCommands : \E order \in Orders(games) : CommandProcessing(c, order)

\* command_processing(&games, c) on the snapshot the pending event was
\* validated against
RaceValidateSecond ==
    /\ ~panicked
    /\ emitted # None
    /\ probe.second = None
    /\ ~probe.stale
    /\ \E c \in RaceCommands : \E order \in Orders(games) :
        LET r == command_processing(games, order, c)
        IN  /\ panicked' = (r = Panicked)
            /\ probe' = IF r = Panicked THEN probe
                        ELSE [probe EXCEPT
                                !.second = r,
                                !.collisions =
                                    IF /\ r # None
                                       /\ r.value.type = "GameCreated"
                                       /\ emitted.value.type = "GameCreated"
                                    THEN @ + 1 ELSE @]
    /\ UNCHANGED <<games, cmd, emitted, log>>

\* event_processing(&mut games, &event) on the event of the first command
RaceApplyFirst ==
    /\ ~panicked
    /\ emitted # None
    /\ WithinBounds(emitted.value)
    /\ Len(log) < MaxRaceLog
    /\ LET r == event_processing(games, emitted.value)
       IN  /\ panicked' = (r = Panicked)
           /\ games' = IF r = Panicked THEN games ELSE r.value
    /\ log' = Append(log, emitted.value)
    /\ emitted' = None
    /\ cmd' = NoCommand
    /\ probe' = [probe EXCEPT !.stale = FALSE]

\* event_processing(&mut games, &event) on the event of the second command
RaceApplySecond ==
    /\ ~panicked
    /\ probe.second # None
    /\ WithinBounds(probe.second.value)
    /\ Len(log) < MaxRaceLog
    /\ LET r == event_processing(games, probe.second.value)
       IN  /\ panicked' = (r = Panicked)
           /\ games' = IF r = Panicked THEN games ELSE r.value
    /\ log' = Append(log, probe.second.value)
    /\ probe' = [probe EXCEPT !.second = None, !.stale = (emitted # None)]
    /\ UNCHANGED <<cmd, emitted>>

NextRace ==
    \/ RaceValidateFirst
    \/ CommandRejected
    \/ RaceValidateSecond
    \/ RaceApplyFirst
    \/ RaceApplySecond

SpecRace == InitRace /\ [][NextRace]_vars

(***************************************************************************)
(* The serialized cycle on a longer game                                   *)
(***************************************************************************)
\* one pairing and two columns of the board, with room for two lines
DeepCreateGameCommands == {CreateGame(PlayerA, PlayerB)}

DeepPlaceTokenCommands ==
    {PlaceToken(0, p, c) : p \in {PlayerA, PlayerB}, c \in {0, 1}}

DeepCreateGameStep ==
    \E c \in DeepCreateGameCommands : \E order \in Orders(games) : CommandProcessing(c, order)

DeepPlaceTokenStep ==
    \E c \in DeepPlaceTokenCommands : CommandProcessing(c, <<>>)

\* event_processing(&mut games, &event) on the event just emitted
DeepEventProcessing ==
    /\ ~panicked
    /\ emitted # None
    /\ IF emitted.value.type = "GameCreated"
       THEN Cardinality(DOMAIN games) < MaxGames
       ELSE TotalPlaced(games) < MaxDeepPlaced
    /\ LET r == event_processing(games, emitted.value)
       IN  /\ panicked' = (r = Panicked)
           /\ games' = IF r = Panicked THEN games ELSE r.value
    /\ emitted' = None
    /\ cmd' = NoCommand
    /\ UNCHANGED <<log, probe>>

NextDeep ==
    \/ DeepCreateGameStep
    \/ DeepPlaceTokenStep
    \/ CommandRejected
    \/ DeepEventProcessing

SpecDeep == Init /\ [][NextDeep]_vars

(***************************************************************************)
(* The two win detectors applied to drawn games                            *)
(***************************************************************************)
\* the 69 lines of four slots of the board, as sets of indexes
Lines ==
    {{(x + k * d[1]) + HORIZONTAL_SLOT_COUNT * (y + k * d[2]) : k \in 0..3} :
        <<x, y, d>> \in {l \in Columns \X Rows \X Directions :
                            /\ l[1] + 3 * l[3][1] \in Columns
                            /\ l[2] + 3 * l[3][2] \in Rows}}

\* a board holding one line of token, with slot i set to slot
LineBoard(line, token, i, slot) ==
    [k \in 0..(SLOT_COUNT - 1) |->
        IF k = i THEN slot
        ELSE IF k \in line THEN Occupied(token)
        ELSE Empty]

\* Red/Yellow, Yellow/Red and Red/Red seats
Seatings == {<<PlayerA, PlayerB>>, <<PlayerB, PlayerA>>, <<PlayerA, PlayerC>>}

\* probe holds the drawn game and, once the detectors have run, what they
\* returned
InitDetect ==
    /\ games = <<>>
    /\ cmd = NoCommand
    /\ emitted = None
    /\ panicked = FALSE
    /\ log = <<>>
    /\ probe \in {[game |-> Game(0, s[1], s[2], LineBoard(line, token, i, slot)),
                   done |-> FALSE,
                   check_game_over |-> None,
                   game_over |-> None] :
                     s \in Seatings, line \in Lines, token \in Token,
                     i \in 0..(SLOT_COUNT - 1), slot \in Slot}

Detect ==
    /\ ~probe.done
    /\ probe' = [probe EXCEPT
                    !.done = TRUE,
                    !.check_game_over =
                        check_game_over(probe.game.board,
                                        probe.game.player1, probe.game.player2),
                    !.game_over = game_over(probe.game)]
    /\ UNCHANGED <<games, cmd, emitted, panicked, log>>

NextDetect == Detect

SpecDetect == InitDetect /\ [][NextDetect]_vars

\* `for pos in board_positions().iter()` and `for pos in
\* column_positions(column).iter()`, each with `pos.translate()` in its
\* body: probe.seen are the positions yielded so far, probe.indexes their
\* translations
Scanned(p) ==
    IF p.fn = "board_positions" THEN board_positions ELSE column_positions(p.column)

InitScan ==
    /\ games = <<>>
    /\ cmd = NoCommand
    /\ emitted = None
    /\ panicked = FALSE
    /\ log = <<>>
    /\ probe \in {[fn |-> "board_positions", column |-> 0, seen |-> <<>>, indexes |-> <<>>]}
                 \cup {[fn |-> "column_positions", column |-> c, seen |-> <<>>, indexes |-> <<>>] :
                          c \in 0..(HORIZONTAL_SLOT_COUNT - 1)}

YieldPosition ==
    /\ Len(probe.seen) = Len(probe.indexes)
    /\ Len(probe.seen) < Cardinality(DOMAIN Scanned(probe))
    /\ probe' = [probe EXCEPT !.seen = Append(@, Scanned(probe)[Len(@)])]
    /\ UNCHANGED <<games, cmd, emitted, panicked, log>>

TranslateYielded ==
    /\ Len(probe.indexes) < Len(probe.seen)
    /\ probe' = [probe EXCEPT !.indexes = Append(@, translate(probe.seen[Len(probe.seen)]))]
    /\ UNCHANGED <<games, cmd, emitted, panicked, log>>

NextScan ==
    \/ YieldPosition
    \/ TranslateYielded

SpecScan == InitScan /\ [][NextScan]_vars

(***************************************************************************)
(* C11..C20                                                                *)
(***************************************************************************)
ScanDone ==
    /\ Len(probe.seen) = Cardinality(DOMAIN Scanned(probe))
    /\ Len(probe.indexes) = Len(probe.seen)

\* C11: board_positions() yields exactly 42 pairwise distinct positions,
\* each with column in [0,7) and row in [0,6); every position yielded by
\* board_positions() and by column_positions(c), c in [0,7), translates to
\* an index in [0,42); column_positions(c) yields the 6 positions of column
\* c in ascending row order.
C11_PositionArrays ==
    LET s == probe.seen
    IN  /\ \A i \in DOMAIN s : ValidPosition(s[i])
        /\ \A i \in DOMAIN probe.indexes : probe.indexes[i] \in 0..41
        /\ probe.fn = "board_positions" =>
              /\ \A i, j \in DOMAIN s : s[i] = s[j] => i = j
              /\ ScanDone => Len(s) = 42
        /\ probe.fn = "column_positions" =>
              /\ \A i \in DOMAIN s : s[i].x = probe.column /\ s[i].y = i - 1
              /\ ScanDone => Len(s) = 6

\* C11 witness: all of board_positions() was yielded and translated.
C11_BoardScanned ==
    /\ probe.fn = "board_positions"
    /\ ScanDone
    /\ Len(probe.indexes) = 42

ColumnMajorBefore(p, q) == p.x < q.x \/ (p.x = q.x /\ p.y < q.y)
RowMajorBefore(p, q) == p.y < q.y \/ (p.y = q.y /\ p.x < q.x)

\* C18 as claimed: the sequence of board_positions(), the win detector's
\* scan order, is column-major ascending: (c, r) comes before (c', r')
\* exactly when c < c', or c = c' and r < r'.
C18_ColumnMajorScan ==
    probe.fn = "board_positions" =>
        \A i, j \in DOMAIN probe.seen :
            i < j <=> ColumnMajorBefore(probe.seen[i], probe.seen[j])

\* C18 as amended: the sequence is row-major ascending: (c, r) comes before
\* (c', r') exactly when r < r', or r = r' and c < c'.
C18_RowMajorScan ==
    probe.fn = "board_positions" =>
        \A i, j \in DOMAIN probe.seen :
            i < j <=> RowMajorBefore(probe.seen[i], probe.seen[j])

\* C18 witness: the scan went from the end of row 0 to the start of row 1.
C18_RowWrapped ==
    /\ probe.fn = "board_positions"
    /\ Len(probe.seen) >= 8
    /\ probe.seen[7] = Position(6, 0)
    /\ probe.seen[8] = Position(0, 1)

EmptyInColumn(board, x) == VERTICAL_SLOT_COUNT - ColumnOccupancy(board, x)

\* the TokenPlaced events for the games of gs with a column of the board
ColumnEvents(gs) ==
    {TokenPlaced(g, token, c) : g \in DOMAIN gs, token \in Token, c \in Columns}

\* C12 as stated: for every board and every TokenPlaced event with column in
\* [0, 7), the board after the second application of the event differs from
\* the board after the first.
C12_SecondApplicationDiffers ==
    \A e \in ColumnEvents(games) :
        LET first == event_processing(games, e)
            second == event_processing(first.value, e)
        IN  second.value[e.game].board # first.value[e.game].board

\* C12: applying the same TokenPlaced event (column in [0, 7)) twice changes
\* the board between the two applications exactly when the column had at
\* least two Empty slots before the first application, and the second
\* application then occupies one further slot of the column; with one or no
\* Empty slot the second application leaves the board as the first left it.
C12_IdempotenceBoundary ==
    \A e \in ColumnEvents(games) :
        LET board == games[e.game].board
            first == event_processing(games, e)
            second == event_processing(first.value, e)
        IN  /\ first # Panicked
            /\ second # Panicked
            /\ IF EmptyInColumn(board, e.column) >= 2
               THEN /\ second.value[e.game].board # first.value[e.game].board
                    /\ ColumnOccupancy(second.value[e.game].board, e.column)
                           = ColumnOccupancy(first.value[e.game].board, e.column) + 1
               ELSE second.value = first.value

\* a game where the second application occupies a further slot of column 1
\* and where column 0 has a single Empty slot left
C12_OneSlotLeft ==
    \E g \in DOMAIN games :
        /\ EmptyInColumn(games[g].board, 0) = 1
        /\ EmptyInColumn(games[g].board, 1) >= 2

\* the GameCreated events of the log, in log order
CreatedInLog == SelectSeq(log, LAMBDA ev : ev.type = "GameCreated")

\* C13: under serialized cycles from an empty Games collection, every
\* GameCreated event emitted carries an id that is not yet a key of Games and
\* applying it leaves the existing games as they are; after n accepted
\* CreateGame commands the keys are exactly 0..n-1 and the n-th game created
\* still holds the players of its command.
C13_FreshGameIds ==
    /\ DOMAIN games = 0..(Len(CreatedInLog) - 1)
    /\ \A g \in DOMAIN games :
        /\ games[g].id = g
        /\ games[g].player1 = CreatedInLog[g + 1].player1
        /\ games[g].player2 = CreatedInLog[g + 1].player2
    /\ (emitted # None /\ emitted.value.type = "GameCreated") =>
        /\ emitted.value.id \notin DOMAIN games
        /\ LET after == event_processing(games, emitted.value).value
           IN  \A g \in DOMAIN games : after[g] = games[g]

\* a second game is about to be created while the first holds a token
C13_SecondGameEmitted ==
    /\ emitted # None
    /\ emitted.value.type = "GameCreated"
    /\ emitted.value.id = 1
    /\ 0 \in DOMAIN games
    /\ Occupancy(games[0].board) > 0

\* the games created and no longer in the collection
LostGames == Len(CreatedInLog) - Cardinality(DOMAIN games)

\* C14: two CreateGame commands validated against the same snapshot emit
\* GameCreated events with the same id; applying the second of them replaces
\* the game the first created, so that once both are applied one created
\* game is lost per such pair; no game is lost unless two CreateGame
\* commands were validated against the same snapshot.
C14_IdCollision ==
    /\ (/\ emitted # None /\ emitted.value.type = "GameCreated"
        /\ probe.second # None /\ probe.second.value.type = "GameCreated") =>
            /\ emitted.value.id = probe.second.value.id
            /\ emitted.value.id \notin DOMAIN games
    /\ \A e \in {emitted, probe.second} :
        (e # None /\ e.value.type = "GameCreated" /\ e.value.id \in DOMAIN games) =>
            LET after == event_processing(games, e.value).value
            IN  /\ DOMAIN after = DOMAIN games
                /\ after[e.value.id].player1 = e.value.player1
                /\ after[e.value.id].player2 = e.value.player2
                /\ after[e.value.id].board = empty_board
    /\ (emitted = None /\ probe.second = None) => LostGames = probe.collisions
    /\ LostGames > 0 => probe.collisions > 0

\* both events of a CreateGame(a, b) / CreateGame(c, d) pair validated
\* against the empty collection have been applied: the game of the event
\* applied first is gone
C14_GameLost ==
    /\ emitted = None
    /\ probe.second = None
    /\ LostGames = 1
    /\ Len(log) = 2
    /\ log[1].type = "GameCreated"
    /\ log[2].type = "GameCreated"
    /\ {log[1].player1.name, log[1].player2.name}
           \cap {log[2].player1.name, log[2].player2.name} = {}
    /\ DOMAIN games = {0}
    /\ games[0].player1 = log[2].player1

\* the test of can_create_game: game.game_over().is_none()
NotYetOver(game) == game_over(game) = None

Seated(game) == {game.player1.name, game.player2.name}

\* C15: in every state reached by serialized cycles from an empty Games
\* collection, no player name is seated in two different games that are both
\* not yet over.
C15_OneOpenGamePerPlayer ==
    \A g, h \in DOMAIN games :
        (g < h /\ Seated(games[g]) \cap Seated(games[h]) # {}) =>
            ~(NotYetOver(games[g]) /\ NotYetOver(games[h]))

\* a player of a finished game plays again in a second game
C15_PlaysAgain ==
    \E g, h \in DOMAIN games :
        /\ g # h
        /\ Seated(games[g]) \cap Seated(games[h]) # {}
        /\ ~NotYetOver(games[g])
        /\ NotYetOver(games[h])
        /\ Occupancy(games[h].board) > 0

\* the indexes where two boards differ
Changed(before, after) == {i \in DOMAIN before : after[i] # before[i]}

PendingTokenPlaced == emitted # None /\ emitted.value.type = "TokenPlaced"

\* C16: when command_processing emits a TokenPlaced event for a state,
\* whatever the column value of the command, event_processing applied to
\* that state returns and turns exactly one Empty slot of the target game's
\* board into Occupied(event.token): the no-op branch of project_board is
\* not taken.
C16_EmittedEventFillsOneSlot ==
    PendingTokenPlaced =>
        LET e == emitted.value
            r == event_processing(games, e)
        IN  /\ r # Panicked
            /\ e.game \in DOMAIN games
            /\ LET changed == Changed(games[e.game].board, r.value[e.game].board)
               IN  /\ Cardinality(changed) = 1
                   /\ \A i \in changed :
                       /\ games[e.game].board[i] = Empty
                       /\ r.value[e.game].board[i] = Occupied(e.token)

\* an event emitted for the last Empty slot of column 0
C16_LastSlotAccepted ==
    /\ PendingTokenPlaced
    /\ emitted.value.column = 0
    /\ ColumnOccupancy(games[emitted.value.game].board, 0) = VERTICAL_SLOT_COUNT - 1

\* the TokenPlaced events accepted commands can carry
CarriedEvents ==
    {TokenPlaced(c.game, c.player.token, c.column) : c \in PlaceTokenCommands}

\* C17: event_processing applied to TokenPlaced{game g, column c}, c any
\* value an accepted command can carry, returns, leaves every game other
\* than g unchanged, leaves g's id and players unchanged, and changes at
\* most one slot of g's board, that slot lying in column c and going from
\* Empty to Occupied; if g is not a key of Games the collection is unchanged.
C17_TokenPlacedFrame ==
    \A e \in CarriedEvents :
        LET r == event_processing(games, e)
        IN  /\ r # Panicked
            /\ DOMAIN r.value = DOMAIN games
            /\ \A g \in DOMAIN games :
                /\ g # e.game => r.value[g] = games[g]
                /\ r.value[g].id = games[g].id
                /\ r.value[g].player1 = games[g].player1
                /\ r.value[g].player2 = games[g].player2
                /\ LET changed == Changed(games[g].board, r.value[g].board)
                   IN  /\ Cardinality(changed) <= 1
                       /\ \A i \in changed :
                           /\ i % HORIZONTAL_SLOT_COUNT = e.column
                           /\ games[g].board[i] = Empty
                           /\ r.value[g].board[i] = Occupied(e.token)
            /\ e.game \notin DOMAIN games => r.value = games

\* C19: along every sequence of serialized cycles, once game_over reports
\* Some(p) for a game it reports the same Some(p) for that game after every
\* later step.
C19_WinnerStable ==
    [][\A g \in DOMAIN games :
          game_over(games[g]).kind = "Some" =>
              /\ g \in DOMAIN games'
              /\ game_over(games'[g]) = game_over(games[g])]_vars

\* C20: for every Game, Game::game_over() returns what
\* check_game_over(&game.board, &game.player1, &game.player2) returns: the
\* same winner, None in the same cases, and an out-of-range access on the
\* same boards.
C20_DetectorsAgree ==
    probe.done => probe.game_over = probe.check_game_over

\* both detectors have reported the second player for a line anchored at the
\* first position of the scan
C20_SecondPlayerWins ==
    /\ probe.done
    /\ probe.game.board[0] = Occupied(probe.game.player2.token)
    /\ probe.game.player1.token # probe.game.player2.token
    /\ probe.game_over = Some(probe.game.player2)

====
